---- MODULE Spec2Model ----
(***************************************************************************)
(* dpd-utils: the INRIX Roadway Analytics report client                    *)
(* (dpdutils/inrix/roadway/api.py), the Swiftly API client                 *)
(* (dpdutils/swiftly/api.py), the INRIX corridor aggregator                *)
(* (dpdutils/inrix/roadway/datapro.py), the BATA volume reshaper           *)
(* (dpdutils/bata.py) and the Swiftly segment reshaper                     *)
(* (dpdutils/swiftly/datapro.py), each as a state machine.                 *)
(*                                                                         *)
(* The components share no state.  Each has its own specification:         *)
(*   Spec         download_corridor_report, one run                        *)
(*   SpecSwiftly  make_api_call, a driver making successive calls          *)
(*   SpecAgg      CorridorReportZip: read_zip, then segments_to_corridor   *)
(*   SpecShape    CorridorReportZip: read_zip, then two calls of           *)
(*                segments_to_corridor with any arguments                  *)
(*   SpecBata     ctvr_to_long, two calls on one file                      *)
(*   SpecGeo      speed_map_segs_to_geojson, one call                      *)
(***************************************************************************)
EXTENDS Integers, Sequences, FiniteSets, TLC

VARIABLES
    \* ---- dpdutils/inrix/roadway/api.py: download_corridor_report
    pc,             \* the statement download_corridor_report is at
    creds,          \* keys of the JSON object read from inrix_creds_fp
    report_id,      \* <<>> before report creation, then <<id>>
    now,            \* time.time(), in seconds since wait_for_report_completion read start
    start,          \* wait_for_report_completion: start
    elapsed,        \* wait_for_report_completion: elapsed
    report_status,  \* wait_for_report_completion: report_status["state"], "" before the first query
    report_data,    \* <<>> before get_report_data returned, then <<urls>>
    inrix_zip,      \* <<>> until download_corridor_report returns, then <<bytes>>
    err,            \* the exception that ended the run, kind "" while none
    trace,          \* what the run did so far: vendor requests (with their responses) and sleeps
    \* ---- dpdutils/swiftly/api.py: make_api_call
    s_pc,           \* the statement make_api_call is at ("idle" between calls)
    keep_trying,    \* make_api_call: keep_trying
    attempt_number, \* make_api_call: attempt_number
    r,              \* make_api_call: the last response, status_code 0 before the first
    s_result,       \* <<>> until make_api_call returns, then <<the JSON value>>
    s_err,          \* the exception that ended the call, kind "" while none
    s_trace,        \* what the current call did so far: requests (with their responses) and sleeps
    calls,          \* calls the driver has started
    \* ---- dpdutils/inrix/roadway/datapro.py: CorridorReportZip
    ra_zip,         \* self.ra_zip: <<>> for None, else <<the archive>>
    data,           \* self.data: <<>> for None, else <<rows of data.csv>>
    metadata,       \* self.metadata: <<>> for None, else <<rows of metadata.csv>>
    report_contents,\* self.report_contents: <<>> for None, else <<the corridor definitions>>
    z_pc,           \* the last call on the holder: "new" (none yet), "read", "read_raised",
                    \* "aggregated", "agg_raised"
    read_result,    \* what the last read_zip returned: "" (it has not), "None", "False"
    z_err,          \* the exception the last call raised, "" for none
    data_formatted, \* __create_data_agg: data_formatted, of the last segments_to_corridor call
    data_agg,       \* __create_data_agg: the returned frame, as a function of its index
    final,          \* the frame segments_to_corridor returned
    call,           \* the arguments of the last segments_to_corridor call
    previous,       \* <<>>, or <<the arguments and the outcome of the call before the last>>
    csv,            \* <<>> while no output file was written, then <<the frame written last>>
    \* ---- dpdutils/bata.py: ctvr_to_long
    workbook,       \* the xls file at in_dir + in_fn: <<>> when it lacks the sheet
                    \* 'DAILY BY HOUR BY LANE', else <<the sheet>>
    ctvr_pc,        \* the last call: "new" (none yet), "returned", "raised"
    ctvr_call,      \* the arguments of the last call
    ctvr_data,      \* ctvr_to_long: data after the Timestamp column was added, of the last call
    ctvr_out,       \* the frame the last call returned
    ctvr_previous,  \* <<>>, or <<the arguments and the frame of the call before the last>>
    ctvr_csv,       \* <<>> while no output file was written, then <<the frame written last>>
    \* ---- dpdutils/swiftly/datapro.py: speed_map_segs_to_geojson
    seg_list,       \* the argument: a list of segments
    seg_list_copy,  \* speed_map_segs_to_geojson: seg_list_copy
    geo_i,          \* speed_map_segs_to_geojson: i, the number of segments done
    new_geojson,    \* speed_map_segs_to_geojson: new_geojson, <<>> before it is made
    geo_pc          \* "new" (not started), "loop", "returned", "raised"

inrixVars == <<pc, creds, report_id, now, start, elapsed, report_status,
               report_data, inrix_zip, err, trace>>

swiftlyVars == <<s_pc, keep_trying, attempt_number, r, s_result, s_err, s_trace, calls>>

zipVars == <<ra_zip, data, metadata, report_contents, z_pc, read_result, z_err,
             data_formatted, data_agg, final, call, previous, csv>>

bataVars == <<workbook, ctvr_pc, ctvr_call, ctvr_data, ctvr_out, ctvr_previous, ctvr_csv>>

geoVars == <<seg_list, seg_list_copy, geo_i, new_geojson, geo_pc>>

vars == <<inrixVars, swiftlyVars, zipVars, bataVars, geoVars>>

\* a step of one component leaves the others' state alone
InrixOnly == UNCHANGED <<swiftlyVars, zipVars, bataVars, geoVars>>
SwiftlyOnly == UNCHANGED <<inrixVars, zipVars, bataVars, geoVars>>
ZipOnly == UNCHANGED <<inrixVars, swiftlyVars, bataVars, geoVars>>
BataOnly == UNCHANGED <<inrixVars, swiftlyVars, zipVars, geoVars>>
GeoOnly == UNCHANGED <<inrixVars, swiftlyVars, zipVars, bataVars>>

----------------------------------------------------------------------------
(* Bounds of the environment *)

\* a status request takes 0..MaxLatency seconds
MaxLatency == 1
\* time.sleep(t) returns after t..t+MaxOversleep seconds
MaxOversleep == 1
\* the vendor hands out report ids 1..MaxReportId
MaxReportId == 2
\* the result descriptor lists 0..MaxUrls download locations
MaxUrls == 2

\* HTTP status codes the INRIX endpoints and the download location answer with
InrixStatusCodes == {200, 401, 429, 500}
\* report states the status endpoint reports
ReportStates == {"RUNNING", "COMPLETED"}
ReportIds == 1..MaxReportId
\* the download locations a descriptor lists are distinct: its first n of these
Urls == <<"url_a", "url_b", "url_c">>
UrlLists == {SubSeq(Urls, 1, n) : n \in 0..MaxUrls}
CredKeys == {"email", "password"}

----------------------------------------------------------------------------
RaiseForStatus_ServerOnly(status_code) == status_code >= 500 /\ status_code < 600

(* requests.Response.raise_for_status: raises HTTPError for 4XX and 5XX *)
RaiseForStatus(status_code) == status_code >= 400 /\ status_code < 600

NoErr == [kind |-> "", status |-> 0]
Event(kind, id, status, state) ==
    [kind |-> kind, id |-> id, status |-> status, state |-> state]

\* an exception leaves download_corridor_report: nothing after the raise runs
Raise(kind, status) ==
    /\ pc' = "raised"
    /\ err' = [kind |-> kind, status |-> status]

----------------------------------------------------------------------------
(* get_creds *)
CredsComplete(keys) == ("email" \in keys) /\ ("password" \in keys)

GetCreds ==
    /\ InrixOnly
    /\ pc = "get_creds"
    /\ \E keys \in SUBSET CredKeys :
          /\ creds' = keys
          /\ IF CredsComplete(keys)
                THEN pc' = "get_access_token" /\ err' = err
                ELSE Raise("ValueError", 0)
    /\ UNCHANGED <<report_id, now, start, elapsed, report_status, report_data,
                   inrix_zip, trace>>

(* get_access_token *)
GetAccessToken ==
    /\ InrixOnly
    /\ pc = "get_access_token"
    /\ \E code \in InrixStatusCodes :
          /\ trace' = Append(trace, Event("auth", 0, code, ""))
          /\ IF RaiseForStatus(code)
                THEN Raise("HTTPError", code)
                ELSE pc' = "create_new_corridor_report" /\ err' = err
    /\ UNCHANGED <<creds, report_id, now, start, elapsed, report_status,
                   report_data, inrix_zip>>

(* create_new_corridor_report *)
CreateNewCorridorReport ==
    /\ InrixOnly
    /\ pc = "create_new_corridor_report"
    /\ \E code \in InrixStatusCodes :
          /\ trace' = Append(trace, Event("create", 0, code, ""))
          /\ IF RaiseForStatus(code)
                THEN Raise("HTTPError", code) /\ report_id' = report_id
                ELSE /\ \E id \in ReportIds : report_id' = <<id>>
                     /\ pc' = "wait_start"
                     /\ err' = err
    /\ UNCHANGED <<creds, now, start, elapsed, report_status, report_data, inrix_zip>>

----------------------------------------------------------------------------
(* wait_for_report_completion *)
max_wait == 600
check_interval == 10

\* lines 145-148: start and the first reading of elapsed
WaitStart ==
    /\ InrixOnly
    /\ pc = "wait_start"
    /\ start' = now
    /\ elapsed' = now - now
    /\ pc' = "wait_first_check"
    /\ UNCHANGED <<creds, report_id, now, report_status, report_data, inrix_zip,
                   err, trace>>

\* check_report_status(access_token, report_id), called from the statement at
\* `at`; on return the wait goes on at `next`
CheckReportStatus(at, next) ==
    /\ InrixOnly
    /\ pc = at
    /\ \E d \in 0..MaxLatency, code \in InrixStatusCodes :
          /\ now' = now + d
          /\ IF RaiseForStatus(code)
                THEN /\ trace' = Append(trace, Event("status", report_id[1], code, ""))
                     /\ Raise("HTTPError", code)
                     /\ UNCHANGED <<report_status, elapsed>>
                ELSE \E st \in ReportStates :
                     /\ trace' = Append(trace, Event("status", report_id[1], code, st))
                     /\ report_status' = st
                     /\ pc' = next
                     /\ err' = err
                     \* line 160, after the query in the loop only
                     /\ elapsed' = IF at = "wait_recheck" THEN now' - start ELSE elapsed
    /\ UNCHANGED <<creds, report_id, start, report_data, inrix_zip>>

\* line 150
WaitFirstCheck == CheckReportStatus("wait_first_check", "wait_test")

TimedOut_Strict(e) == e > max_wait

\* line 153
TimedOut(e) == e >= max_wait

WaitTest_GiveUpQuietly ==
    /\ InrixOnly
    /\ pc = "wait_test"
    /\ pc' = IF report_status # "COMPLETED" /\ ~TimedOut(elapsed)
                THEN "wait_sleep" ELSE "get_report_data"
    /\ UNCHANGED <<creds, report_id, now, start, elapsed, report_status,
                   report_data, inrix_zip, trace, err>>

WaitTest_TimeoutFirst ==
    /\ InrixOnly
    /\ pc = "wait_test"
    /\ IF TimedOut(elapsed)
          THEN Raise("InrixTimeout", 0)
          ELSE IF report_status # "COMPLETED"
                  THEN pc' = "wait_sleep" /\ err' = err
                  ELSE pc' = "get_report_data" /\ err' = err
    /\ UNCHANGED <<creds, report_id, now, start, elapsed, report_status,
                   report_data, inrix_zip, trace>>

\* lines 151-157: the loop condition and the timeout test
WaitTest ==
    /\ InrixOnly
    /\ pc = "wait_test"
    /\ IF report_status # "COMPLETED"
          THEN IF TimedOut(elapsed)
                  THEN Raise("InrixTimeout", 0)
                  ELSE pc' = "wait_sleep" /\ err' = err
          ELSE pc' = "get_report_data" /\ err' = err
    /\ UNCHANGED <<creds, report_id, now, start, elapsed, report_status,
                   report_data, inrix_zip, trace>>

\* line 158
WaitSleep ==
    /\ InrixOnly
    /\ pc = "wait_sleep"
    /\ \E o \in 0..MaxOversleep : now' = now + check_interval + o
    /\ trace' = Append(trace, Event("sleep", 0, 0, ""))
    /\ pc' = "wait_recheck"
    /\ UNCHANGED <<creds, report_id, start, elapsed, report_status, report_data,
                   inrix_zip, err>>

\* lines 159-160
WaitRecheck == CheckReportStatus("wait_recheck", "wait_test")

----------------------------------------------------------------------------
(* get_report_data *)
GetReportData ==
    /\ InrixOnly
    /\ pc = "get_report_data"
    /\ \E code \in InrixStatusCodes :
          /\ trace' = Append(trace, Event("data", report_id[1], code, ""))
          /\ IF RaiseForStatus(code)
                THEN Raise("HTTPError", code) /\ report_data' = report_data
                ELSE /\ \E urls \in UrlLists : report_data' = <<urls>>
                     /\ pc' = "get_report_bytes"
                     /\ err' = err
    /\ UNCHANGED <<creds, report_id, now, start, elapsed, report_status, inrix_zip>>

MultipleUrls_OffByOne(urls) == Len(urls) > 2

\* line 184
MultipleUrls(urls) == Len(urls) > 1

(* get_report_bytes: r.content is returned whatever r.status_code is *)
GetReportBytes ==
    /\ InrixOnly
    /\ pc = "get_report_bytes"
    /\ LET urls == report_data[1] IN
       IF MultipleUrls(urls)
          THEN Raise("NotImplementedError", 0) /\ UNCHANGED <<trace, inrix_zip>>
          ELSE IF Len(urls) = 0
             THEN Raise("IndexError", 0) /\ UNCHANGED <<trace, inrix_zip>>
             ELSE \E code \in InrixStatusCodes :
                  /\ trace' = Append(trace, Event("fetch", urls[1], code, ""))
                  /\ inrix_zip' = <<[url |-> urls[1], status |-> code]>>
                  /\ pc' = "returned"
                  /\ err' = err
    /\ UNCHANGED <<creds, report_id, now, start, elapsed, report_status, report_data>>

----------------------------------------------------------------------------
(* dpdutils/swiftly/api.py: make_api_call *)

\* the driver makes up to MaxCalls successive calls
MaxCalls == 2

\* HTTP status codes the Swiftly endpoints answer with
SwiftlyStatusCodes == {200, 204, 302, 404, 429, 500}
\* JSON values of the responses
JsonBodies == {"json_a", "json_b"}

max_attempts == 10
retry_sleep == 1000

NoResponse == [status_code |-> 0, json |-> ""]
SEvent(kind, status, secs) == [kind |-> kind, status |-> status, secs |-> secs]

\* lines 79-83; gps_playback and speed_map call make_api_call once each
CallMakeApiCall ==
    /\ SwiftlyOnly
    /\ s_pc \in {"idle", "returned"}
    /\ calls < MaxCalls
    /\ calls' = calls + 1
    /\ keep_trying' = TRUE
    /\ attempt_number' = 0
    /\ r' = NoResponse
    /\ s_result' = <<>>
    /\ s_err' = NoErr
    /\ s_trace' = <<>>
    /\ s_pc' = "while"

IsOk_NotAnError(status_code) == status_code < 400

\* line 88
IsOk(status_code) == status_code = 200

\* line 90
IsTooManyRequests(status_code) == status_code = 429

MayRetry_OffByOne(attempt) == attempt <= max_attempts

\* line 92
MayRetry(attempt) == attempt < max_attempts

SRaise(kind, status) ==
    /\ s_pc' = "raised"
    /\ s_err' = [kind |-> kind, status |-> status]

\* lines 85-102: one pass of the loop body, up to the sleep
Attempt ==
    /\ SwiftlyOnly
    /\ s_pc = "while"
    /\ keep_trying
    /\ attempt_number' = attempt_number + 1
    /\ \E code \in SwiftlyStatusCodes, body \in JsonBodies :
          /\ r' = [status_code |-> code, json |-> body]
          /\ s_trace' = Append(s_trace, SEvent("request", code, 0))
          /\ IF IsOk(code)
                THEN /\ keep_trying' = FALSE
                     /\ s_pc' = "while"
                     /\ s_err' = s_err
                ELSE IF IsTooManyRequests(code)
                   THEN /\ keep_trying' = keep_trying
                        /\ IF MayRetry(attempt_number')
                              THEN s_pc' = "sleep" /\ s_err' = s_err
                              ELSE IF RaiseForStatus(code)
                                      THEN SRaise("HTTPError", code)
                                      ELSE s_pc' = "while" /\ s_err' = s_err
                   ELSE /\ keep_trying' = keep_trying
                        /\ IF RaiseForStatus(code)
                              THEN SRaise("HTTPError", code)
                              ELSE SRaise("ValueError", code)
    /\ UNCHANGED <<s_result, calls>>

\* line 93
Sleep ==
    /\ SwiftlyOnly
    /\ s_pc = "sleep"
    /\ s_trace' = Append(s_trace, SEvent("sleep", 0, retry_sleep))
    /\ s_pc' = "while"
    /\ UNCHANGED <<keep_trying, attempt_number, r, s_result, s_err, calls>>

\* line 104
ReturnJson ==
    /\ SwiftlyOnly
    /\ s_pc = "while"
    /\ ~keep_trying
    /\ s_result' = <<r.json>>
    /\ s_pc' = "returned"
    /\ UNCHANGED <<keep_trying, attempt_number, r, s_err, s_trace, calls>>

SwiftlyInit ==
    /\ s_pc = "idle"
    /\ keep_trying = FALSE
    /\ attempt_number = 0
    /\ r = NoResponse
    /\ s_result = <<>>
    /\ s_err = NoErr
    /\ s_trace = <<>>
    /\ calls = 0

SwiftlyIdle == SwiftlyInit

SwiftlyNext ==
    \/ CallMakeApiCall
    \/ Attempt
    \/ Sleep
    \/ ReturnJson

----------------------------------------------------------------------------
(* dpdutils/inrix/roadway/datapro.py: CorridorReportZip *)

\* data.csv holds 0..MaxRows rows
MaxRows == 3

\* A "Date Time" of data.csv, "2020-11-01T01:00:00-07:00", is [date, time, offset]:
\* the day (0 is 2020-11-01, when daylight saving time ended and 01:00 came
\* twice), the minute of the day and the UTC offset in hours.
DateTimes ==
    { [date |-> 0, time |-> 60, offset |-> -7],
      [date |-> 0, time |-> 60, offset |-> -8],
      [date |-> 0, time |-> 120, offset |-> -8] }

\* "Travel Time(Minutes)": <<>> is an empty cell (NaN); a segment takes 3
\* minutes during daylight saving time and 5 minutes after it, so the two
\* readings of a repeated hour differ
NaN == <<>>
TravelTimes(dt) == {NaN, IF dt.offset = -7 THEN <<3>> ELSE <<5>>}

\* reportContents.json "corridors"; in the second the corridors share segment 2
CorridorConfigs ==
    { << [name |-> "A", xdSegIds |-> <<1, 2>>], [name |-> "B", xdSegIds |-> <<3>>] >>,
      << [name |-> "A", xdSegIds |-> <<1, 2>>], [name |-> "B", xdSegIds |-> <<2>>] >> }

\* "Segment Length(Miles)" of the segments
SegmentLength == (1 :> 1) @@ (2 :> 2) @@ (3 :> 4)

Range(f) == {f[i] : i \in DOMAIN f}

RECURSIVE SetToSeq(_)
SetToSeq(S) ==
    IF S = {} THEN <<>>
    ELSE LET x == CHOOSE y \in S : \A z \in S : y <= z
         IN  <<x>> \o SetToSeq(S \ {x})

\* metadata.csv of a report: one row per segment of its corridors
MetadataOf(corridors) ==
    LET segs == UNION {Range(corridors[i].xdSegIds) : i \in DOMAIN corridors}
        ids == SetToSeq(segs)
    IN  [i \in DOMAIN ids |-> [seg |-> ids[i], length |-> SegmentLength[ids[i]]]]

\* the rows data.csv of a report can hold: an observation of a segment of a
\* corridor of the report
DataRows(corridors) ==
    UNION { [corridor : {corridors[i].name}, dt : {dt},
             seg : Range(corridors[i].xdSegIds), tt : TravelTimes(dt)] :
            i \in DOMAIN corridors, dt \in DateTimes }

\* An archive handed to read_zip: whether the path exists (bytes always do),
\* the ZipFile open (1, 2 or 3) from which the file is gone again (0: it stays),
\* and the three members, <<>> for a member the archive lacks.
\* The archives of the vendor hold data.csv, metadata.csv and reportContents.json
\* of one report.
VendorArchives ==
    UNION { [exists : {TRUE}, vanishes : {0},
             data : {<<rows>> : rows \in UNION {[1..n -> DataRows(c)] : n \in 0..MaxRows}},
             metadata : {<<MetadataOf(c)>>},
             report_contents : {<<c>>}] : c \in CorridorConfigs }

\* a vendor archive with something wrong: no file at the path, the file removed
\* while it is read, or a member missing
BrokenArchives ==
    LET c == CHOOSE x \in CorridorConfigs : x[2].xdSegIds = <<3>>
        whole == [exists |-> TRUE, vanishes |-> 0, data |-> <<<<>>>>,
                  metadata |-> <<MetadataOf(c)>>, report_contents |-> <<c>>]
    IN  { [whole EXCEPT !.exists = FALSE],
          [whole EXCEPT !.vanishes = 1],
          [whole EXCEPT !.vanishes = 2],
          [whole EXCEPT !.vanishes = 3],
          [whole EXCEPT !.data = <<>>],
          [whole EXCEPT !.metadata = <<>>],
          [whole EXCEPT !.report_contents = <<>>] }

Archives == VendorArchives \cup BrokenArchives

\* lines 29-51: what the n-th load (data, metadata, report contents) raises:
\* zipfile.ZipFile raises FileNotFoundError for a file that is gone, z.open
\* raises KeyError for a member the archive lacks
LoadError(archive, n) ==
    IF archive.vanishes # 0 /\ archive.vanishes <= n THEN "FileNotFoundError"
    ELSE IF <<archive.data, archive.metadata, archive.report_contents>>[n] = <<>>
            THEN "KeyError"
            ELSE ""

\* lines 53-82.  The loads run in order and each assigns its field; the first
\* that raises ends the call: FileNotFoundError makes it return False, any
\* other exception leaves it.  A call whose loads all succeed returns None.
ReadZipFrom(archives) ==
    /\ ZipOnly
    /\ z_pc = "new"
    /\ \E archive \in archives :
          IF ~archive.exists
             THEN /\ z_pc' = "read_raised"
                  /\ z_err' = "FileNotFoundError"
                  /\ UNCHANGED <<ra_zip, data, metadata, report_contents, read_result>>
             ELSE LET failing == {n \in 1..3 : LoadError(archive, n) # ""}
                      first == IF failing = {} THEN 4
                               ELSE CHOOSE n \in failing : \A k \in failing : n <= k
                      raised == IF first = 4 THEN "" ELSE LoadError(archive, first)
                  IN  /\ ra_zip' = <<archive>>
                      /\ data' = IF first > 1 THEN archive.data ELSE data
                      /\ metadata' = IF first > 2 THEN archive.metadata ELSE metadata
                      /\ report_contents' =
                            IF first > 3 THEN archive.report_contents ELSE report_contents
                      /\ IF raised = "KeyError"
                            THEN /\ z_pc' = "read_raised"
                                 /\ z_err' = "KeyError"
                                 /\ read_result' = read_result
                            ELSE /\ z_pc' = "read"
                                 /\ z_err' = ""
                                 /\ read_result' =
                                       IF raised = "FileNotFoundError" THEN "False" ELSE "None"
    /\ UNCHANGED <<data_formatted, data_agg, final, call, previous, csv>>

ReadZip == ReadZipFrom(Archives)

\* lines 94-96: the "Date Time" without its last 6 characters, as a datetime
Timestamp(dt) == [date |-> dt.date, time |-> dt.time]

RECURSIVE DropDuplicates_WholeRow(_, _)
DropDuplicates_WholeRow(rows, seen) ==
    IF rows = <<>> THEN <<>>
    ELSE IF Head(rows) \in seen
            THEN DropDuplicates_WholeRow(Tail(rows), seen)
            ELSE <<Head(rows)>> \o DropDuplicates_WholeRow(Tail(rows), seen \cup {Head(rows)})

\* line 102: drop_duplicates(subset=["Timestamp", "Segment ID"]) keeps the first
\* row of each (Timestamp, Segment ID); seen holds the pairs of the rows before
RECURSIVE DropDuplicates(_, _)
DropDuplicates(rows, seen) ==
    IF rows = <<>> THEN <<>>
    ELSE LET key == <<Head(rows).Timestamp, Head(rows).seg>>
         IN  IF key \in seen
                THEN DropDuplicates(Tail(rows), seen)
                ELSE <<Head(rows)>> \o DropDuplicates(Tail(rows), seen \cup {key})

\* lines 90-119
GetFormatDataForAgg(rows) ==
    LET stamped == [i \in DOMAIN rows |->
                      [corridor |-> rows[i].corridor, dt |-> rows[i].dt,
                       Timestamp |-> Timestamp(rows[i].dt),
                       seg |-> rows[i].seg, tt |-> rows[i].tt]]
        kept == DropDuplicates(stamped, {})
    IN  [i \in DOMAIN kept |->
           [corridor |-> kept[i].corridor,
            Date |-> kept[i].Timestamp.date,
            TimeInterval |-> kept[i].Timestamp.time,
            seg |-> kept[i].seg,
            tt |-> kept[i].tt]]

\* gb_cols, line 124
GroupKey(row) == <<row.corridor, row.Date, row.TimeInterval>>
Group(rows, key) == SelectSeq(rows, LAMBDA row : GroupKey(row) = key)

\* sum() of a column skips NaN
RECURSIVE SumTravelTime(_)
SumTravelTime(rows) ==
    IF rows = <<>> THEN 0
    ELSE (IF Head(rows).tt = NaN THEN 0 ELSE Head(rows).tt[1]) + SumTravelTime(Tail(rows))

RECURSIVE SumSegmentId(_)
SumSegmentId(rows) ==
    IF rows = <<>> THEN 0 ELSE Head(rows).seg + SumSegmentId(Tail(rows))

CountTravelTime_Size(rows) == Len(rows)

\* count() of a column counts the cells that are not NaN
CountTravelTime(rows) == Len(SelectSeq(rows, LAMBDA row : row.tt # NaN))

\* lines 133-137
RECURSIVE SumLength(_)
SumLength(rows) ==
    IF rows = <<>> THEN 0 ELSE Head(rows).length + SumLength(Tail(rows))

CorridorLength(meta, corridor_segs) ==
    SumLength(SelectSeq(meta, LAMBDA row : row.seg \in Range(corridor_segs)))

RECURSIVE Gcd(_, _)
Gcd(a, b) == IF b = 0 THEN a ELSE Gcd(b, a % b)

\* a quotient of two numbers that are not negative, in lowest terms; x / 0 is inf
Quotient(a, b) ==
    IF b = 0 THEN [num |-> 1, den |-> 0]
    ELSE LET g == Gcd(a, b) IN [num |-> a \div g, den |-> b \div g]

Speed_MilesPerMinute(length, travel_time) == Quotient(length, travel_time)

\* lines 153-156: length / travel time * 60
Speed(length, travel_time) == Quotient(length * 60, travel_time)

\* line 149
FullSegmentCount(segment_count, alt_count) == segment_count = <<alt_count>>

\* lines 127-142: the last corridor of the report with the group's name sets the
\* group's "Corridor Length(Miles)" and "Segment Count"; NaN where there is none
CorridorOf(corridors, name) ==
    LET named == {i \in DOMAIN corridors : corridors[i].name = name}
    IN  IF named = {} THEN <<>>
        ELSE <<corridors[CHOOSE i \in named : \A j \in named : j <= i]>>

\* lines 121-158, for data whose every corridor of the report has a row
CreateDataAgg(formatted, meta, corridors) ==
    LET keys == {GroupKey(formatted[i]) : i \in DOMAIN formatted}
        summed == [k \in keys |->
            LET rows == Group(formatted, k)
                c == CorridorOf(corridors, k[1])
            IN  [SegmentID |-> SumSegmentId(rows),
                 TravelTime |-> SumTravelTime(rows),
                 CorridorLength |->
                     IF c = <<>> THEN NaN ELSE <<CorridorLength(meta, c[1].xdSegIds)>>,
                 SegmentCount |-> IF c = <<>> THEN NaN ELSE <<Len(c[1].xdSegIds)>>,
                 alt_count |-> CountTravelTime(rows)]]
        full == {k \in keys : FullSegmentCount(summed[k].SegmentCount, summed[k].alt_count)}
    IN  [k \in full |->
           [SegmentID |-> summed[k].SegmentID,
            TravelTime |-> summed[k].TravelTime,
            CorridorLength |-> summed[k].CorridorLength[1],
            SegmentCount |-> summed[k].SegmentCount[1],
            Speed |-> Speed(summed[k].CorridorLength[1], summed[k].TravelTime)]]

\* line 232: strftime("%A") of the date; day 0 is a Sunday
DayNames == <<"Sunday", "Monday", "Tuesday", "Wednesday", "Thursday", "Friday", "Saturday">>
DayOfWeek(date) == DayNames[(date % 7) + 1]

\* lines 220-233: the long frame, a row per (corridor, date, interval)
LongFrame(agg) ==
    [k \in DOMAIN agg |->
       [DayOfWeek |-> DayOfWeek(k[2]),
        Speed |-> agg[k].Speed,
        TravelTime |-> agg[k].TravelTime]]

\* line 141: data_agg.loc[(corridor_name,), ...] = ... finds no row for a corridor
\* of the report that has no group in the data
CorridorWithoutData(formatted, corridors) ==
    \E i \in DOMAIN corridors :
       \A j \in DOMAIN formatted : formatted[j].corridor # corridors[i].name

\* None
None == <<>>

\* the arguments of a call: out_format, wide_metric (None by default), out_dir
\* and out_fn (None by default)
OutFormats == {"long", "wide", "tall"}
WideMetrics == {None, <<"speed">>, <<"travel_time">>}
\* <<out_dir, out_fn>>: both by default, or both given
OutTargets == {<<None, None>>, <<<<"out/">>, <<"corridors.csv">>>>}
NoCall == [out_format |-> "", wide_metric |-> None, out_dir |-> None, out_fn |-> None]

ArgsError_MetricUnchecked(out_format, wide_metric) ==
    IF out_format \notin {"wide", "long"} THEN "ValueError" ELSE ""

\* lines 191-198: the check of out_format and wide_metric
ArgsError(out_format, wide_metric) ==
    IF out_format \notin {"wide", "long"} THEN "ValueError"
    ELSE IF out_format = "wide" /\ wide_metric \notin {<<"speed">>, <<"travel_time">>}
            THEN "ValueError"
            ELSE ""

\* lines 205-216: values= of pivot_table, as the quotient its mean is
MetricOf(row, wide_metric) ==
    IF wide_metric = <<"speed">> THEN row.Speed ELSE Quotient(row.TravelTime, 1)

PivotGroup_AnyDate(agg, corridor, date, interval) ==
    {k \in DOMAIN agg : k[1] = corridor /\ k[3] = interval}

\* pivot_table groups the rows by index and columns
PivotGroup(agg, corridor, date, interval) ==
    {k \in DOMAIN agg : k[1] = corridor /\ k[2] = date /\ k[3] = interval}

\* a cell of the pivot table is the mean of its group's values, NaN for an empty
\* group; the index of data_agg is unique, so a group has at most the one value
\* that is its mean
PivotCell(agg, corridor, date, interval, wide_metric) ==
    LET group == PivotGroup(agg, corridor, date, interval)
    IN  IF group = {} THEN NaN
        ELSE <<MetricOf(agg[CHOOSE k \in group : TRUE], wide_metric)>>

\* lines 204-233: the wide frame, a row per (corridor, date) and a column per
\* time interval
WideFrame(agg, wide_metric) ==
    LET index == {<<k[1], k[2]>> : k \in DOMAIN agg}
        columns == {k[3] : k \in DOMAIN agg}
    IN  [ix \in index |->
           [DayOfWeek |-> DayOfWeek(ix[2]),
            cells |-> [interval \in columns |->
                         PivotCell(agg, ix[1], ix[2], interval, wide_metric)]]]

\* lines 160-240.  The arguments are checked first.  Then, on a holder whose
\* read_zip did not load everything, the first use of a field that is None
\* raises: self.data.copy(), then self.report_contents["corridors"], then
\* self.metadata["Segment ID"].  The frame is written when out_fn and out_dir
\* are both given.
SegmentsToCorridorCall(out_format, wide_metric, out_dir, out_fn) ==
    /\ ZipOnly
    /\ call' = [out_format |-> out_format, wide_metric |-> wide_metric,
                out_dir |-> out_dir, out_fn |-> out_fn]
    /\ previous' = IF call = NoCall THEN previous
                   ELSE <<[call |-> call, z_pc |-> z_pc, final |-> final]>>
    /\ LET fail(kind) ==
              /\ z_pc' = "agg_raised"
              /\ z_err' = kind
              /\ UNCHANGED <<data_formatted, data_agg, final, csv>>
       IN  IF ArgsError(out_format, wide_metric) # "" THEN fail(ArgsError(out_format, wide_metric))
           ELSE IF data = <<>> THEN fail("AttributeError")
           ELSE IF report_contents = <<>> THEN fail("TypeError")
           ELSE IF metadata = <<>> /\ report_contents[1] # <<>> THEN fail("TypeError")
           ELSE LET formatted == GetFormatDataForAgg(data[1])
                    agg == CreateDataAgg(formatted, metadata[1], report_contents[1])
                    frame == IF out_format = "long" THEN LongFrame(agg)
                             ELSE WideFrame(agg, wide_metric)
                    done == /\ data_formatted' = formatted
                            /\ data_agg' = agg
                            /\ IF out_format = "wide"
                                  /\ wide_metric \notin {<<"speed">>, <<"travel_time">>}
                                  \* lines 217-219
                                  THEN /\ z_pc' = "agg_raised"
                                       /\ z_err' = "ValueError"
                                       /\ UNCHANGED <<final, csv>>
                                  ELSE /\ final' = frame
                                       /\ csv' = IF out_fn # None /\ out_dir # None
                                                    THEN <<frame>> ELSE csv
                                       /\ z_pc' = "aggregated"
                                       /\ z_err' = ""
                IN  IF CorridorWithoutData(formatted, report_contents[1])
                       \* pandas either raises on the missing label or assigns to no row
                       THEN done \/ fail("KeyError")
                       ELSE done
    /\ UNCHANGED <<ra_zip, data, metadata, report_contents, read_result>>

\* segments_to_corridor(out_format="long"), the first call on a holder
SegmentsToCorridor ==
    /\ z_pc \in {"new", "read", "read_raised"}
    /\ SegmentsToCorridorCall("long", None, None, None)

ZipInit ==
    /\ ra_zip = <<>>
    /\ data = <<>>
    /\ metadata = <<>>
    /\ report_contents = <<>>
    /\ z_pc = "new"
    /\ read_result = ""
    /\ z_err = ""
    /\ data_formatted = <<>>
    /\ data_agg = <<>>
    /\ final = <<>>
    /\ call = NoCall
    /\ previous = <<>>
    /\ csv = <<>>

\* no holder is in use
ZipIdle ==
    /\ ra_zip = <<>>
    /\ data = <<>>
    /\ metadata = <<>>
    /\ report_contents = <<>>
    /\ z_pc = "idle"
    /\ read_result = ""
    /\ z_err = ""
    /\ data_formatted = <<>>
    /\ data_agg = <<>>
    /\ final = <<>>
    /\ call = NoCall
    /\ previous = <<>>
    /\ csv = <<>>

AggNext ==
    \/ ReadZip
    \/ SegmentsToCorridor

\* ---- a holder on which segments_to_corridor is called twice, with any
\* ---- arguments

\* data.csv holds 0..MaxShapeRows rows
MaxShapeRows == 2

\* standard-time readings of two days: 01:00 of day 0, 01:00 and 02:00 of day 1
ShapeDateTimes ==
    { [date |-> 0, time |-> 60, offset |-> -8],
      [date |-> 1, time |-> 60, offset |-> -8],
      [date |-> 1, time |-> 120, offset |-> -8] }

\* the travel time of a segment differs from reading to reading
ShapeTravelTime(seg, dt) == <<seg + 2 * dt.date + (dt.time \div 60)>>

ShapeRows(corridors) ==
    UNION { { [corridor |-> corridors[i].name, dt |-> dt, seg |-> seg,
               tt |-> ShapeTravelTime(seg, dt)] :
              seg \in Range(corridors[i].xdSegIds), dt \in ShapeDateTimes } :
            i \in DOMAIN corridors }

\* archives of the report with the corridors A (segments 1, 2) and B (segment 3),
\* and the broken ones
ShapeArchives ==
    LET c == CHOOSE x \in CorridorConfigs : x[2].xdSegIds = <<3>>
    IN  [exists : {TRUE}, vanishes : {0},
         data : {<<rows>> : rows \in UNION {[1..n -> ShapeRows(c)] : n \in 0..MaxShapeRows}},
         metadata : {<<MetadataOf(c)>>},
         report_contents : {<<c>>}]
        \cup BrokenArchives

ReadZipShape == ReadZipFrom(ShapeArchives)

\* a call with any arguments, on a holder in any state: the first call, or the
\* one after it
SegmentsToCorridorAny ==
    /\ previous = <<>>
    /\ \E out_format \in OutFormats, wide_metric \in WideMetrics, target \in OutTargets :
          SegmentsToCorridorCall(out_format, wide_metric, target[1], target[2])

ShapeNext ==
    \/ ReadZipShape
    \/ SegmentsToCorridorAny

----------------------------------------------------------------------------
(* dpdutils/bata.py: ctvr_to_long *)

\* the sheet holds the rows of 0..MaxDays days and 0..MaxLanes lanes
MaxDays == 2
MaxLanes == 2

DigitChars == <<"0", "1", "2", "3", "4", "5", "6", "7", "8", "9">>
Digit(c) == (CHOOSE i \in 1..10 : DigitChars[i] = c) - 1

\* the label of the hour that starts at h o'clock, "0000-0100" for 0, as its
\* characters
HourLabel(h) ==
    << DigitChars[(h \div 10) + 1], DigitChars[(h % 10) + 1], "0", "0", "-",
       DigitChars[((h + 1) \div 10) + 1], DigitChars[((h + 1) % 10) + 1], "0", "0" >>

\* lines 58-83
time_cols == [i \in 1..24 |-> HourLabel(i - 1)]

\* the number of columns of a sheet: the 29 of the vendor's layout, or more
SheetWidths == {29, 31}

\* the volumes of a sheet: all cells filled, or the first hour of lane 1 and the
\* last hour of every lane empty
VolumeVariants == {"filled", "gaps"}
VolumeCell(variant, date, lane, hour) ==
    IF variant = "gaps" /\ ((hour = 0 /\ lane = 1) \/ hour = 23) THEN NaN
    ELSE <<1 + hour + 24 * lane + date>>

\* the rows of a sheet, a row per lane per day in the order of the days, each
\* with its 24 hour cells; a sheet can end with a row that has no date
SheetRows(days, lanes, variant) ==
    [k \in 1..(days * lanes) |->
       LET date == (k - 1) \div lanes
           lane == ((k - 1) % lanes) + 1
       IN  [Date |-> <<date>>, Day |-> DayOfWeek(date), LaneID |-> lane,
            cells |-> [c \in 1..24 |-> VolumeCell(variant, date, lane, c - 1)]]]

BlankRow == [Date |-> NaN, Day |-> "", LaneID |-> 0, cells |-> [c \in 1..24 |-> NaN]]

Sheets ==
    { [width |-> w, rows |-> SheetRows(days, lanes, variant) \o tail] :
      w \in SheetWidths, days \in 0..MaxDays, lanes \in 0..MaxLanes,
      variant \in VolumeVariants, tail \in {<<>>, <<BlankRow>>} }

\* lines 40-47: the workbooks read: with the sheet, or without it
Workbooks == {None} \cup {<<sheet>> : sheet \in Sheets}

\* line 50: dropna(subset=["Date"])
DropNaDate(rows) == SelectSeq(rows, LAMBDA row : row.Date # NaN)

\* lines 52-53: the columns after the 29th are cut off
Truncate(width) == IF width > 29 THEN 29 ELSE width

\* lines 87-90: melt gives a row per hour column per sheet row, column by column
Melt(rows) ==
    LET n == Len(rows)
    IN  [k \in 1..(24 * n) |->
           LET c == ((k - 1) \div n) + 1
               row == rows[((k - 1) % n) + 1]
           IN  [Date |-> row.Date[1], Day |-> row.Day, LaneID |-> row.LaneID,
                Hour |-> time_cols[c], Volume |-> row.cells[c]]]

HourStart_End(hour) == SubSeq(hour, 6, 9) \o <<"0", "1">>

\* line 96: data["Hour"].str.slice(stop=4) + "01", the characters HHMMSS
HourStart(hour) == SubSeq(hour, 1, 4) \o <<"0", "1">>

\* line 95: pd.to_datetime of "<date> HHMMSS", in seconds since day 0
ToDatetime(date, hhmmss) ==
    date * 86400
    + (Digit(hhmmss[1]) * 10 + Digit(hhmmss[2])) * 3600
    + (Digit(hhmmss[3]) * 10 + Digit(hhmmss[4])) * 60
    + (Digit(hhmmss[5]) * 10 + Digit(hhmmss[6]))

\* lines 95-97
WithTimestamp(melted) ==
    [k \in DOMAIN melted |->
       [Date |-> melted[k].Date, Day |-> melted[k].Day, LaneID |-> melted[k].LaneID,
        Hour |-> melted[k].Hour, Volume |-> melted[k].Volume,
        Timestamp |-> ToDatetime(melted[k].Date, HourStart(melted[k].Hour))]]

DtDate_Hour(timestamp) == timestamp \div 3600

\* lines 108, 111: Timestamp.dt.date, as the day
DtDate(timestamp) == timestamp \div 86400

\* sum() of Volume skips NaN
RECURSIVE GroupSum(_)
GroupSum(rows) ==
    IF rows = <<>> THEN 0
    ELSE (IF Head(rows).Volume = NaN THEN 0 ELSE Head(rows).Volume[1]) + GroupSum(Tail(rows))

\* groupby sorts its keys; a key is <<timestamp>>, <<date>> or <<date, lane>>
KeyLeq(a, b) ==
    \/ a[1] < b[1]
    \/ a[1] = b[1] /\ (Len(a) = 1 \/ a[2] <= b[2])

RECURSIVE SortKeys(_)
SortKeys(S) ==
    IF S = {} THEN <<>>
    ELSE LET k == CHOOSE x \in S : \A y \in S : KeyLeq(x, y)
         IN  <<k>> \o SortKeys(S \ {k})

\* lines 99-111: the frame of each aggregation mode
Unaggregated(rows) ==
    [k \in DOMAIN rows |->
       [Timestamp |-> rows[k].Timestamp, LaneID |-> rows[k].LaneID, Volume |-> rows[k].Volume]]

SumLanes(rows) ==
    LET key(row) == <<row.Timestamp>>
        keys == SortKeys({key(rows[k]) : k \in DOMAIN rows})
    IN  [i \in DOMAIN keys |->
           [Timestamp |-> keys[i][1],
            Volume |-> <<GroupSum(SelectSeq(rows, LAMBDA row : key(row) = keys[i]))>>]]

SumHours(rows) ==
    LET key(row) == <<DtDate(row.Timestamp), row.LaneID>>
        keys == SortKeys({key(rows[k]) : k \in DOMAIN rows})
    IN  [i \in DOMAIN keys |->
           [Timestamp |-> keys[i][1], LaneID |-> keys[i][2],
            Volume |-> <<GroupSum(SelectSeq(rows, LAMBDA row : key(row) = keys[i]))>>]]

SumLanesAndHours_Count(rows) ==
    LET key(row) == <<DtDate(row.Timestamp)>>
        keys == SortKeys({key(rows[k]) : k \in DOMAIN rows})
    IN  [i \in DOMAIN keys |->
           [Timestamp |-> keys[i][1],
            Volume |-> <<Len(SelectSeq(rows, LAMBDA row : key(row) = keys[i]))>>]]

SumLanesAndHours(rows) ==
    LET key(row) == <<DtDate(row.Timestamp)>>
        keys == SortKeys({key(rows[k]) : k \in DOMAIN rows})
    IN  [i \in DOMAIN keys |->
           [Timestamp |-> keys[i][1],
            Volume |-> <<GroupSum(SelectSeq(rows, LAMBDA row : key(row) = keys[i]))>>]]

NoCtvrCall == [sum_lanes |-> FALSE, sum_hours |-> FALSE, out_dir |-> None, out_fn |-> None,
               made |-> FALSE]

\* lines 12-116.  sheets['DAILY BY HOUR BY LANE'] raises KeyError for a workbook
\* without the sheet.  The first columns of a sheet are Date, Day, Lane ID and the
\* hour columns: data[other_cols + time_cols] raises KeyError when they are not
\* all among the columns kept.
CtvrToLong(sum_lanes, sum_hours, out_dir, out_fn) ==
    /\ BataOnly
    /\ ctvr_call' = [sum_lanes |-> sum_lanes, sum_hours |-> sum_hours,
                     out_dir |-> out_dir, out_fn |-> out_fn, made |-> TRUE]
    /\ ctvr_previous' = IF ctvr_call.made
                           THEN <<[call |-> ctvr_call, ctvr_pc |-> ctvr_pc, out |-> ctvr_out]>>
                           ELSE ctvr_previous
    /\ IF workbook = None \/ Truncate(workbook[1].width) < 3 + Len(time_cols)
          THEN /\ ctvr_pc' = "raised"
               /\ UNCHANGED <<ctvr_data, ctvr_out, ctvr_csv>>
          ELSE LET cleaned == DropNaDate(workbook[1].rows)
                   stamped == WithTimestamp(Melt(cleaned))
                   frame == IF ~sum_lanes /\ ~sum_hours THEN Unaggregated(stamped)
                            ELSE IF sum_lanes /\ ~sum_hours THEN SumLanes(stamped)
                            ELSE IF ~sum_lanes /\ sum_hours THEN SumHours(stamped)
                            ELSE SumLanesAndHours(stamped)
               IN  /\ ctvr_data' = stamped
                   /\ ctvr_out' = frame
                   /\ ctvr_csv' = IF out_fn # None /\ out_dir # None THEN <<frame>> ELSE ctvr_csv
                   /\ ctvr_pc' = "returned"
    /\ UNCHANGED workbook

\* a call with any arguments: the first call on the file, or the one after it
CtvrToLongAny ==
    /\ ctvr_pc # "idle"
    /\ ctvr_previous = <<>>
    /\ \E sum_lanes \in BOOLEAN, sum_hours \in BOOLEAN, target \in OutTargets :
          CtvrToLong(sum_lanes, sum_hours, target[1], target[2])

BataInit ==
    /\ workbook \in Workbooks
    /\ ctvr_pc = "new"
    /\ ctvr_call = NoCtvrCall
    /\ ctvr_data = <<>>
    /\ ctvr_out = <<>>
    /\ ctvr_previous = <<>>
    /\ ctvr_csv = <<>>

\* no file is being reshaped
BataIdle ==
    /\ workbook = None
    /\ ctvr_pc = "idle"
    /\ ctvr_call = NoCtvrCall
    /\ ctvr_data = <<>>
    /\ ctvr_out = <<>>
    /\ ctvr_previous = <<>>
    /\ ctvr_csv = <<>>

BataNext == CtvrToLongAny

----------------------------------------------------------------------------
(* dpdutils/swiftly/datapro.py: speed_map_segs_to_geojson *)

\* seg_list holds 0..MaxSegs segments
MaxSegs == 2

\* path locations of the Speed Maps API: a dict with lat, lon and the heading
PathLocs ==
    LET p1 == [lat |-> 37, lon |-> -122, heading |-> 0]
        p2 == [lat |-> 38, lon |-> -121, heading |-> 90]
        p3 == [lat |-> 39, lon |-> -120, heading |-> 180]
    IN  { <<p1>>, <<p1, p2>>, <<p2, p1>>, <<p1, p2, p3>> }

\* a segment of the Speed Maps API is a dict; one of a response that lacks the
\* stops has no 'fromStop'
Segments ==
    { [fromStop |-> "stop_a", toStop |-> "stop_b", pathLocs |-> path, speed |-> 12] :
      path \in PathLocs }
    \cup
    { [toStop |-> "stop_b", pathLocs |-> path, speed |-> 12] : path \in PathLocs }

SegLists == UNION {[1..n -> Segments] : n \in 0..MaxSegs}

\* del d[key], d.pop(key): the dict without the key
Del(d, key) == [k \in DOMAIN d \ {key} |-> d[k]]

\* d[key] = value
Put(d, key, value) == [k \in DOMAIN d \cup {key} |-> IF k = key THEN value ELSE d[k]]

Coordinates_EndsOnly(pathLocs) ==
    << <<pathLocs[1].lon, pathLocs[1].lat>>,
       <<pathLocs[Len(pathLocs)].lon, pathLocs[Len(pathLocs)].lat>> >>

\* line 62: [[p['lon'], p['lat']] for p in pathLocs]
Coordinates(pathLocs) == [j \in DOMAIN pathLocs |-> <<pathLocs[j].lon, pathLocs[j].lat>>]

\* lines 43-50: the empty collection and the deep copy of the input
GeojsonStart ==
    /\ GeoOnly
    /\ geo_pc = "new"
    /\ new_geojson' = [type |-> "FeatureCollection", features |-> <<>>]
    /\ seg_list_copy' = seg_list
    /\ geo_i' = 0
    /\ geo_pc' = "loop"
    /\ UNCHANGED seg_list

\* lines 53-73: one iteration of the loop, on seg_list_copy[geo_i] (counted from
\* 0); del and pop raise KeyError for a key the segment lacks
GeojsonFeature ==
    /\ GeoOnly
    /\ geo_pc = "loop"
    /\ geo_i < Len(seg_list_copy)
    /\ LET seg == seg_list_copy[geo_i + 1]
           needed == {"fromStop", "toStop", "pathLocs"}
       IN  IF ~(needed \subseteq DOMAIN seg)
              THEN /\ geo_pc' = "raised"
                   /\ seg_list_copy' =
                         [seg_list_copy EXCEPT ![geo_i + 1] =
                             IF "fromStop" \notin DOMAIN seg THEN seg
                             ELSE IF "toStop" \notin DOMAIN seg THEN Del(seg, "fromStop")
                             ELSE Put(Del(Del(seg, "fromStop"), "toStop"), "order", geo_i)]
                   /\ UNCHANGED <<new_geojson, geo_i>>
              ELSE LET properties ==
                          Del(Put(Del(Del(seg, "fromStop"), "toStop"), "order", geo_i),
                              "pathLocs")
                       new_feature ==
                          [type |-> "Feature",
                           geometry |-> [type |-> "LineString",
                                         coordinates |-> Coordinates(seg["pathLocs"])],
                           properties |-> properties]
                   IN  /\ seg_list_copy' = [seg_list_copy EXCEPT ![geo_i + 1] = properties]
                       /\ new_geojson' =
                             [new_geojson EXCEPT !.features = Append(@, new_feature)]
                       /\ geo_i' = geo_i + 1
                       /\ geo_pc' = "loop"
    /\ UNCHANGED seg_list

\* line 75
GeojsonReturn ==
    /\ GeoOnly
    /\ geo_pc = "loop"
    /\ geo_i = Len(seg_list_copy)
    /\ geo_pc' = "returned"
    /\ UNCHANGED <<seg_list, seg_list_copy, geo_i, new_geojson>>

GeoInit ==
    /\ seg_list \in SegLists
    /\ seg_list_copy = <<>>
    /\ geo_i = 0
    /\ new_geojson = <<>>
    /\ geo_pc = "new"

\* no segment list is being reshaped
GeoIdle ==
    /\ seg_list = <<>>
    /\ seg_list_copy = <<>>
    /\ geo_i = 0
    /\ new_geojson = <<>>
    /\ geo_pc = "idle"

GeoNext ==
    \/ GeojsonStart
    \/ GeojsonFeature
    \/ GeojsonReturn

----------------------------------------------------------------------------
InrixInit ==
    /\ pc = "get_creds"
    /\ creds = {}
    /\ report_id = <<>>
    /\ now = 0
    /\ start = 0
    /\ elapsed = 0
    /\ report_status = ""
    /\ report_data = <<>>
    /\ inrix_zip = <<>>
    /\ err = NoErr
    /\ trace = <<>>

\* the client is not running
InrixIdle ==
    /\ pc = "idle"
    /\ creds = {}
    /\ report_id = <<>>
    /\ now = 0
    /\ start = 0
    /\ elapsed = 0
    /\ report_status = ""
    /\ report_data = <<>>
    /\ inrix_zip = <<>>
    /\ err = NoErr
    /\ trace = <<>>

Init == InrixInit /\ SwiftlyIdle /\ ZipIdle /\ BataIdle /\ GeoIdle

Next ==
    \/ GetCreds
    \/ GetAccessToken
    \/ CreateNewCorridorReport
    \/ WaitStart
    \/ WaitFirstCheck
    \/ WaitTest
    \/ WaitSleep
    \/ WaitRecheck
    \/ GetReportData
    \/ GetReportBytes

Spec == Init /\ [][Next]_vars

InitSwiftly == InrixIdle /\ SwiftlyInit /\ ZipIdle /\ BataIdle /\ GeoIdle

SpecSwiftly == InitSwiftly /\ [][SwiftlyNext]_vars

InitAgg == InrixIdle /\ SwiftlyIdle /\ ZipInit /\ BataIdle /\ GeoIdle

SpecAgg == InitAgg /\ [][AggNext]_vars

InitShape == InrixIdle /\ SwiftlyIdle /\ ZipInit /\ BataIdle /\ GeoIdle

SpecShape == InitShape /\ [][ShapeNext]_vars

InitBata == InrixIdle /\ SwiftlyIdle /\ ZipIdle /\ BataInit /\ GeoIdle

SpecBata == InitBata /\ [][BataNext]_vars

InitGeo == InrixIdle /\ SwiftlyIdle /\ ZipIdle /\ BataIdle /\ GeoInit

SpecGeo == InitGeo /\ [][GeoNext]_vars

----------------------------------------------------------------------------
(* Properties of download_corridor_report *)

Success(status_code) == status_code >= 200 /\ status_code < 300
Requests == SelectSeq(trace, LAMBDA e : e.kind # "sleep")

\* C1, as stated: InrixTimeout is never raised while the elapsed time since the
\* start of the wait has not yet exceeded the 600 s ceiling.
C1_NoTimeoutUntilCeilingExceeded ==
    err.kind = "InrixTimeout" => now - start > max_wait

\* C1: with no status query reporting COMPLETED, wait_for_report_completion raises
\* InrixTimeout once the elapsed time measured after a status query has reached
\* the ceiling (elapsed >= 600 s: it neither sleeps nor queries again), and it
\* never raises InrixTimeout while the elapsed time is below the ceiling.
C1_TimeoutOnceCeilingReached ==
    /\ err.kind = "InrixTimeout" =>
          /\ now - start >= max_wait
          /\ elapsed = now - start
          /\ report_status # "COMPLETED"
    /\ pc \in {"wait_sleep", "wait_recheck"} =>
          /\ elapsed < max_wait
          /\ report_status # "COMPLETED"
    /\ pc \in {"get_report_data", "get_report_bytes", "returned"} =>
          \E i \in 1..Len(trace) : trace[i].state = "COMPLETED"

C1_Witness ==
    /\ err.kind = "InrixTimeout"
    /\ now - start = max_wait
    /\ \A i \in 1..Len(trace) : trace[i].state # "COMPLETED"

\* C2: the vendor requests of a run occur in the order auth, report-create,
\* status queries, result descriptor, file fetch; the status and descriptor
\* requests carry the created job id; the descriptor is requested only directly
\* after a status query that reported COMPLETED, and never in a run that timed out.
C2_RequestOrder ==
    LET reqs == Requests IN
    /\ \A i \in 1..Len(reqs) :
          /\ i = 1 => reqs[i].kind = "auth"
          /\ i > 1 =>
                LET p == reqs[i - 1].kind
                    k == reqs[i].kind
                IN  \/ p = "auth" /\ k = "create"
                    \/ p = "create" /\ k = "status"
                    \/ p = "status" /\ k \in {"status", "data"}
                    \/ p = "data" /\ k = "fetch"
          /\ reqs[i].kind \in {"status", "data"} =>
                report_id # <<>> /\ reqs[i].id = report_id[1]
          /\ reqs[i].kind = "data" =>
                /\ reqs[i - 1].kind = "status"
                /\ reqs[i - 1].state = "COMPLETED"
                /\ Success(reqs[i - 1].status)
    /\ err.kind = "InrixTimeout" =>
          \A i \in 1..Len(reqs) : reqs[i].kind \notin {"data", "fetch"}

C2_Witness ==
    /\ pc = "returned"
    /\ \E i \in 1..Len(trace) : trace[i].kind = "sleep"
    /\ trace[Len(trace)].kind = "fetch"

C4_MultipleUrlsFail ==
    /\ (report_data # <<>> /\ Len(report_data[1]) > 1 /\ pc # "get_report_bytes") =>
          /\ pc = "raised"
          /\ err.kind = "NotImplementedError"
          /\ inrix_zip = <<>>
          /\ \A i \in 1..Len(trace) : trace[i].kind # "fetch"
    /\ inrix_zip # <<>> =>
          /\ Len(report_data[1]) = 1
          /\ inrix_zip[1].url = report_data[1][1]

C4_Witness ==
    /\ err.kind = "NotImplementedError"
    /\ Len(report_data[1]) = 2
    /\ report_data[1][1] # report_data[1][2]

\* C5: a non-success status on the result-descriptor request or on the file fetch
\* ends the run with that HTTP error; the body of a non-success response is never
\* returned as the archive bytes.
C5_TransportErrorsPropagate ==
    /\ \A i \in 1..Len(trace) :
          (trace[i].kind \in {"data", "fetch"} /\ ~Success(trace[i].status)) =>
             /\ pc = "raised"
             /\ err = [kind |-> "HTTPError", status |-> trace[i].status]
    /\ inrix_zip # <<>> => Success(inrix_zip[1].status)

----------------------------------------------------------------------------
(* Properties of make_api_call *)

SRequests == {i \in 1..Len(s_trace) : s_trace[i].kind = "request"}
SSleeps == {i \in 1..Len(s_trace) : s_trace[i].kind = "sleep"}
LastIs(kind, status) ==
    /\ s_trace # <<>>
    /\ s_trace[Len(s_trace)].kind = kind
    /\ s_trace[Len(s_trace)].status = status

\* C6: a call sends at most 10 requests and sleeps at most 9 times; every sleep
\* lasts 1000 s, directly follows a 429 response and is followed by the next
\* request; a 429 response to one of the first 9 requests is followed by a sleep,
\* and a 429 response to the 10th request raises the HTTP error with no sleep
\* and no further request.
C6_BoundedRetry ==
    /\ Cardinality(SRequests) <= 10
    /\ Cardinality(SSleeps) <= 9
    /\ \A i \in SSleeps :
          /\ s_trace[i].secs = 1000
          /\ i > 1 /\ s_trace[i - 1].kind = "request" /\ s_trace[i - 1].status = 429
          /\ i < Len(s_trace) => s_trace[i + 1].kind = "request"
          /\ i = Len(s_trace) => s_pc = "while" /\ keep_trying
    /\ \A i \in SRequests :
          (s_trace[i].status = 429 /\ i < Len(s_trace)) => s_trace[i + 1].kind = "sleep"
    /\ (LastIs("request", 429) /\ Cardinality(SRequests) < 10) => s_pc = "sleep"
    /\ (LastIs("request", 429) /\ Cardinality(SRequests) = 10) =>
          /\ s_pc = "raised"
          /\ s_err = [kind |-> "HTTPError", status |-> 429]
          /\ s_result = <<>>

C6_Witness ==
    /\ calls = 2
    /\ s_pc = "raised"
    /\ s_err = [kind |-> "HTTPError", status |-> 429]
    /\ Cardinality(SRequests) = 10
    /\ Cardinality(SSleeps) = 9

\* C7: a response whose status is neither 200 nor 429 is the last thing the call
\* does: the call has raised (no sleep, no further request) and returns no JSON
\* value, whatever the number of 429 responses before it.
C7_OtherStatusRaises ==
    \A i \in SRequests :
       s_trace[i].status \notin {200, 429} =>
          /\ i = Len(s_trace)
          /\ s_pc = "raised"
          /\ s_err.kind \in {"HTTPError", "ValueError"}
          /\ s_err.status = s_trace[i].status
          /\ s_result = <<>>

C7_Witness ==
    /\ s_pc = "raised"
    /\ s_err.kind = "ValueError"
    /\ Cardinality(SSleeps) = 2
    /\ Len(s_trace) = 5

----------------------------------------------------------------------------
(* Properties of CorridorReportZip.segments_to_corridor *)

\* the corridor definition of the loaded report with this name
Configured(name) ==
    LET cs == report_contents[1]
    IN  cs[CHOOSE i \in DOMAIN cs : cs[i].name = name]

\* the loaded rows of data.csv for a corridor, date, interval and segment that
\* carry a travel time
Observed(k, seg) ==
    {i \in DOMAIN data[1] :
        /\ data[1][i].corridor = k[1]
        /\ data[1][i].dt.date = k[2]
        /\ data[1][i].dt.time = k[3]
        /\ data[1][i].seg = seg
        /\ data[1][i].tt # NaN}

RECURSIVE SumOf(_)
SumOf(f) ==
    IF DOMAIN f = {} THEN 0
    ELSE LET x == CHOOSE y \in DOMAIN f : TRUE
         IN  f[x] + SumOf([y \in DOMAIN f \ {x} |-> f[y]])

\* C8: every row (corridor, date, interval) of the output has, for each segment
\* id of the corridor's configured xdSegIds, a loaded observation with a travel
\* time for that corridor, date and interval; a group lacking one is not a row
\* of the output.
C8_FullCoverageOnly ==
    z_pc = "aggregated" =>
       /\ \A k \in DOMAIN final :
             \A seg \in Range(Configured(k[1]).xdSegIds) : Observed(k, seg) # {}
       /\ \A i \in DOMAIN data_formatted :
             LET k == GroupKey(data_formatted[i])
             IN  (\E seg \in Range(Configured(k[1]).xdSegIds) : Observed(k, seg) = {})
                    => k \notin DOMAIN final

C8_Witness ==
    /\ z_pc = "aggregated"
    /\ <<"A", 0, 60>> \in DOMAIN final
    /\ \E i \in DOMAIN data_formatted :
          /\ data_formatted[i].corridor = "A"
          /\ GroupKey(data_formatted[i]) \notin DOMAIN final

\* C9: for every retained (corridor, date, interval) the travel time is the sum
\* of the travel times of the corridor's normalized segment observations of
\* that interval, the corridor length is the sum of the metadata lengths of the
\* corridor's configured segments, and speed = length / travel time * 60;
\* segments of 1 and 2 miles reporting 3 minutes each give speed 30.
C9_AggregateValues ==
    z_pc = "aggregated" =>
       \A k \in DOMAIN final :
          LET segs == Range(Configured(k[1]).xdSegIds)
              rows == {i \in DOMAIN data_formatted : GroupKey(data_formatted[i]) = k}
              time == SumOf([i \in rows |-> data_formatted[i].tt[1]])
              miles == SumOf([i \in {j \in DOMAIN metadata[1] : metadata[1][j].seg \in segs}
                                |-> metadata[1][i].length])
          IN  /\ final[k].TravelTime = time
              /\ data_agg[k].CorridorLength = miles
              /\ time > 0
              /\ final[k].Speed.den > 0
              /\ final[k].Speed.num * time = final[k].Speed.den * miles * 60
              /\ (miles = 3 /\ time = 6) => final[k].Speed = [num |-> 30, den |-> 1]

C9_Witness ==
    /\ z_pc = "aggregated"
    /\ <<"A", 0, 60>> \in DOMAIN final
    /\ final[<<"A", 0, 60>>].TravelTime = 6
    /\ data_agg[<<"A", 0, 60>>].CorridorLength = 3
    /\ final[<<"A", 0, 60>>].Speed = [num |-> 30, den |-> 1]

\* C10: no two normalized rows share a (timestamp, segment id) pair, and every
\* pair of the loaded data is the pair of exactly one normalized row, which
\* carries the corridor and travel time of a loaded row with that pair.
C10_Deduplicated ==
    z_pc = "aggregated" =>
       LET Pair(row) == <<row.Date, row.TimeInterval, row.seg>>
           Loaded(row) == <<row.dt.date, row.dt.time, row.seg>>
       IN  /\ \A i, j \in DOMAIN data_formatted :
                 Pair(data_formatted[i]) = Pair(data_formatted[j]) => i = j
           /\ \A i \in DOMAIN data[1] :
                 Cardinality({j \in DOMAIN data_formatted :
                                Pair(data_formatted[j]) = Loaded(data[1][i])}) = 1
           /\ \A j \in DOMAIN data_formatted :
                 \E i \in DOMAIN data[1] :
                    /\ Pair(data_formatted[j]) = Loaded(data[1][i])
                    /\ data_formatted[j].corridor = data[1][i].corridor
                    /\ data_formatted[j].tt = data[1][i].tt

C10_Witness ==
    /\ z_pc = "aggregated"
    /\ Len(data[1]) = 2
    /\ data[1][1].dt.date = data[1][2].dt.date
    /\ data[1][1].dt.time = data[1][2].dt.time
    /\ data[1][1].seg = data[1][2].seg
    /\ data[1][1].tt # NaN
    /\ data[1][2].tt # NaN
    /\ data[1][1].tt # data[1][2].tt
    /\ Len(data_formatted) = 1

----------------------------------------------------------------------------
(* Properties of ctvr_to_long *)

\* the days and the lanes of the rows of the sheet that have a date
SheetDays == {workbook[1].rows[k].Date[1] :
                 k \in {j \in DOMAIN workbook[1].rows : workbook[1].rows[j].Date # NaN}}
SheetLanes == {workbook[1].rows[k].LaneID :
                 k \in {j \in DOMAIN workbook[1].rows : workbook[1].rows[j].Date # NaN}}

\* the total of the Volume column of a frame
RECURSIVE TotalVolume(_)
TotalVolume(frame) ==
    IF frame = <<>> THEN 0
    ELSE (IF Head(frame).Volume = NaN THEN 0 ELSE Head(frame).Volume[1])
         + TotalVolume(Tail(frame))

\* C13: for a sheet with one row per (date, lane), the frame returned has
\* 24 * lanes * days rows with neither flag, 24 * days rows with sum_lanes only,
\* lanes * days rows with sum_hours only and days rows with both flags.
C13_RowCounts ==
    ctvr_pc = "returned" =>
       LET days == Cardinality(SheetDays)
           lanes == Cardinality(SheetLanes)
       IN  Len(ctvr_out) =
              IF ~ctvr_call.sum_lanes /\ ~ctvr_call.sum_hours THEN 24 * lanes * days
              ELSE IF ctvr_call.sum_lanes /\ ~ctvr_call.sum_hours THEN 24 * days
              ELSE IF ~ctvr_call.sum_lanes /\ ctvr_call.sum_hours THEN lanes * days
              ELSE days

C13_Witness ==
    /\ ctvr_pc = "returned"
    /\ ~ctvr_call.sum_lanes /\ ctvr_call.sum_hours
    /\ Cardinality(SheetDays) = 2 /\ Cardinality(SheetLanes) = 2
    /\ Len(workbook[1].rows) = 5
    /\ Len(ctvr_out) = 4

\* C14: for the same file, the total Volume of the unaggregated frame equals
\* the total Volume of the frame with sum_lanes and sum_hours both set.
C14_VolumeConserved ==
    ( /\ ctvr_pc = "returned"
      /\ ctvr_call.sum_lanes /\ ctvr_call.sum_hours
      /\ ctvr_previous # <<>>
      /\ ctvr_previous[1].ctvr_pc = "returned"
      /\ ~ctvr_previous[1].call.sum_lanes /\ ~ctvr_previous[1].call.sum_hours )
    => TotalVolume(ctvr_previous[1].out) = TotalVolume(ctvr_out)

C14_Witness ==
    /\ ctvr_pc = "returned"
    /\ ctvr_call.sum_lanes /\ ctvr_call.sum_hours
    /\ ctvr_previous # <<>>
    /\ ctvr_previous[1].ctvr_pc = "returned"
    /\ ~ctvr_previous[1].call.sum_lanes /\ ~ctvr_previous[1].call.sum_hours
    /\ Len(ctvr_previous[1].out) = 96
    /\ \E k \in DOMAIN ctvr_previous[1].out : ctvr_previous[1].out[k].Volume = NaN
    /\ Len(ctvr_out) = 2
    /\ TotalVolume(ctvr_out) > 0

\* the position of an hour label among the hour columns
HourIndex(hour) == CHOOSE i \in DOMAIN time_cols : time_cols[i] = hour

\* C15: the Timestamp of a row falls on the date of the row, and of two rows the
\* one with the earlier (date, hour start) has the earlier Timestamp: the
\* timestamps of the 24 hours of each day are distinct, and "0000-0100" of a
\* date comes after "2300-2400" of the date before and before "0100-0200" of
\* the same date.
C15_TimestampOrder ==
    ctvr_pc = "returned" =>
       \* the rank of each row in the order of (date, hour start)
       LET rank == [k \in DOMAIN ctvr_data |->
                      ctvr_data[k].Date * 24 + HourIndex(ctvr_data[k].Hour)] \o <<>>
       IN  /\ \A k \in DOMAIN ctvr_data :
                 /\ ctvr_data[k].Timestamp >= ctvr_data[k].Date * 86400
                 /\ ctvr_data[k].Timestamp < (ctvr_data[k].Date + 1) * 86400
           /\ \A j, k \in DOMAIN ctvr_data :
                 rank[j] < rank[k] => ctvr_data[j].Timestamp < ctvr_data[k].Timestamp

C15_Witness ==
    /\ ctvr_pc = "returned"
    /\ \E j, k \in DOMAIN ctvr_data :
          /\ ctvr_data[j].Date = 0 /\ ctvr_data[j].Hour = time_cols[24]
          /\ ctvr_data[k].Date = 1 /\ ctvr_data[k].Hour = time_cols[1]
          /\ ctvr_data[j].Timestamp = 82801
          /\ ctvr_data[k].Timestamp = 86401

----------------------------------------------------------------------------
(* Properties of speed_map_segs_to_geojson *)

\* C18: the collection returned has exactly one feature per segment of seg_list,
\* in the order of seg_list; feature i (counted from 0) is a LineString whose
\* coordinates are the [lon, lat] of every path location of segment i, in their
\* order, and whose properties are the segment's other properties (without the
\* stops) with order = i.
C18_FeaturePerSegment ==
    geo_pc = "returned" =>
       /\ new_geojson.type = "FeatureCollection"
       /\ Len(new_geojson.features) = Len(seg_list)
       /\ \A n \in DOMAIN seg_list :
             LET feature == new_geojson.features[n]
                 path == seg_list[n].pathLocs
                 coords == feature.geometry.coordinates
             IN  /\ feature.type = "Feature"
                 /\ feature.geometry.type = "LineString"
                 /\ feature.properties["order"] = n - 1
                 /\ DOMAIN feature.properties = {"order", "speed"}
                 /\ feature.properties["speed"] = seg_list[n].speed
                 /\ Len(coords) = Len(path)
                 /\ \A j \in DOMAIN path : coords[j] = <<path[j].lon, path[j].lat>>

C18_Witness ==
    /\ geo_pc = "returned"
    /\ Len(seg_list) = 2
    /\ Len(seg_list[1].pathLocs) = 3
    /\ Len(seg_list[2].pathLocs) = 2
    /\ seg_list[1].pathLocs[1] # seg_list[2].pathLocs[1]
    /\ Len(new_geojson.features) = 2

----------------------------------------------------------------------------
(* More properties of wait_for_report_completion *)

StatusQueries == {i \in 1..Len(trace) : trace[i].kind = "status"}
Sleeps == {i \in 1..Len(trace) : trace[i].kind = "sleep"}
Waiting == pc \in {"wait_start", "wait_first_check", "wait_test", "wait_sleep", "wait_recheck"}

\* C19: with every sleep lasting at least check_interval, a wait makes at most 61
\* status queries and at most 60 sleeps, and while it has not ended (returned to
\* download_corridor_report or raised) it has a next step: it ends.
C19_WaitTerminates ==
    LET queries == Cardinality(StatusQueries)
        sleeps == Cardinality(Sleeps)
    IN  /\ queries <= 61
        /\ sleeps <= 60
        /\ queries <= sleeps + 1
        /\ Waiting => ENABLED Next

C19_Witness ==
    /\ err.kind = "InrixTimeout"
    /\ Cardinality(StatusQueries) = 61
    /\ Cardinality(Sleeps) = 60

\* C20: after a status query has reported COMPLETED the wait makes no further
\* status query and no sleep and does not raise InrixTimeout, whatever the
\* elapsed time; InrixTimeout is raised only directly after a status query that
\* reported another state.
C20_CompletedEndsWait ==
    /\ \A i \in StatusQueries :
          trace[i].state = "COMPLETED" =>
             /\ \A j \in (i + 1)..Len(trace) : trace[j].kind \notin {"status", "sleep"}
             /\ err.kind # "InrixTimeout"
             /\ pc \in {"wait_test", "get_report_data", "get_report_bytes", "returned", "raised"}
    /\ err.kind = "InrixTimeout" =>
          /\ trace[Len(trace)].kind = "status"
          /\ trace[Len(trace)].state # "COMPLETED"
          /\ Success(trace[Len(trace)].status)

C20_Witness ==
    /\ pc = "get_report_data"
    /\ report_status = "COMPLETED"
    /\ elapsed > max_wait
    /\ now - start = elapsed

----------------------------------------------------------------------------
(* More properties of CorridorReportZip.read_zip *)

\* the holder's three tables are those of the archive the call was given
LoadedFrom(archive) ==
    /\ data # <<>> /\ data = archive.data
    /\ metadata # <<>> /\ metadata = archive.metadata
    /\ report_contents # <<>> /\ report_contents = archive.report_contents

\* C16: after a call of read_zip on a new holder, whether it returned or raised,
\* either the holder's data, metadata and report contents are all three those of
\* the archive passed, or all three are as before the call (not set).
C16_AllOrNothing ==
    z_pc \in {"read", "read_raised"} =>
       \/ ra_zip # <<>> /\ LoadedFrom(ra_zip[1])
       \/ data = <<>> /\ metadata = <<>> /\ report_contents = <<>>

\* C17: read_zip returns a boolean: True when data, metadata and report
\* contents were all loaded, False when they were not.
C17_ReturnsBool ==
    z_pc = "read" =>
       /\ read_result \in {"True", "False"}
       /\ read_result = "True" <=> (ra_zip # <<>> /\ LoadedFrom(ra_zip[1]))

----------------------------------------------------------------------------
(* Properties of CorridorReportZip.segments_to_corridor *)

ValidArgs(c) ==
    \/ c.out_format = "long"
    \/ c.out_format = "wide" /\ c.wide_metric \in {<<"speed">>, <<"travel_time">>}

\* C11: a call of segments_to_corridor whose out_format is neither "wide" nor
\* "long", or whose out_format is "wide" and whose wide_metric is neither
\* "speed" nor "travel_time" (None included), raises ValueError whatever the
\* state of the holder, and changes nothing: not the holder, not the aggregate
\* of an earlier call, not the frame returned before, not the output file.
C11_ArgumentsCheckedFirst ==
    [][ (zipVars' # zipVars /\ call' # NoCall /\ ~ValidArgs(call')) =>
           /\ z_pc' = "agg_raised"
           /\ z_err' = "ValueError"
           /\ UNCHANGED <<ra_zip, data, metadata, report_contents, read_result,
                          data_formatted, data_agg, final, csv>> ]_vars

\* an invalid call after a call that aggregated and wrote its frame
C11_WitnessSecondCall ==
    /\ previous # <<>> /\ previous[1].z_pc = "aggregated"
    /\ call.out_format = "wide" /\ call.wide_metric = None
    /\ z_err = "ValueError"
    /\ data_agg # <<>> /\ csv # <<>> /\ csv = <<final>>

C11_Witness ==
    /\ call.out_format = "wide" /\ call.wide_metric = None
    /\ call.out_dir # None /\ call.out_fn # None
    /\ z_pc = "agg_raised" /\ z_err = "ValueError"
    /\ data # <<>> /\ data[1] # <<>> /\ metadata # <<>> /\ report_contents # <<>>
    /\ previous = <<>> /\ data_agg = <<>> /\ csv = <<>>

C11_WitnessUnloaded ==
    /\ call.out_format = "tall"
    /\ z_err = "ValueError"
    /\ data = <<>>
\* the wide call returned, after a long call on the same holder that returned
WideAfterLong ==
    /\ call.out_format = "wide" /\ z_pc = "aggregated"
    /\ previous # <<>>
    /\ previous[1].call.out_format = "long" /\ previous[1].z_pc = "aggregated"

\* the value of the selected metric in a row of the long frame
LongValue(row, wide_metric) ==
    IF wide_metric = <<"speed">> THEN row.Speed
    ELSE [num |-> row.TravelTime, den |-> 1]

\* C12: for the same loaded archive, the wide frame has exactly one row per
\* (corridor, date) of the long frame and one column per distinct time interval
\* of the long frame, and for every (corridor, date, interval) of the long frame
\* its cell holds the long frame's value of the selected metric.
C12_WideMatchesLong ==
    WideAfterLong =>
       LET long == previous[1].final
           wide == final
       IN  /\ DOMAIN wide = {<<k[1], k[2]>> : k \in DOMAIN long}
           /\ \A ix \in DOMAIN wide : DOMAIN wide[ix].cells = {k[3] : k \in DOMAIN long}
           /\ \A k \in DOMAIN long :
                 wide[<<k[1], k[2]>>].cells[k[3]] = <<LongValue(long[k], call.wide_metric)>>

C12_Witness ==
    /\ WideAfterLong
    /\ call.wide_metric = <<"travel_time">>
    /\ Cardinality(DOMAIN final) = 2
    /\ \E ix \in DOMAIN final :
          /\ Cardinality(DOMAIN final[ix].cells) = 2
          /\ \E i \in DOMAIN final[ix].cells : final[ix].cells[i] = NaN
    /\ Cardinality(DOMAIN previous[1].final) = 2

----------------------------------------------------------------------------
(* The coverage filter of CorridorReportZip.__create_data_agg *)

\* the (corridor, date, interval) of the loaded report for which every configured
\* segment of the corridor has a loaded observation with a travel time
FullyCovered ==
    {k \in {<<report_contents[1][c].name, data[1][i].dt.date, data[1][i].dt.time>> :
               c \in DOMAIN report_contents[1], i \in DOMAIN data[1]} :
        \A seg \in Range(Configured(k[1]).xdSegIds) : Observed(k, seg) # {}}

\* C21: every (corridor, date, interval) for which each configured segment of
\* the corridor has an observation with a travel time in the loaded data is a
\* row of the output of segments_to_corridor, whatever the report's corridors,
\* also when two corridors share a segment id.
C21_NothingCoveredDropped ==
    z_pc = "aggregated" => \A k \in FullyCovered : k \in DOMAIN final

\* two corridors share segment 2, both are fully covered at 01:00 by readings of
\* one UTC offset, and the output lacks corridor B
C21_SharedSegmentDropped ==
    /\ z_pc = "aggregated"
    /\ report_contents[1][2].xdSegIds = <<2>>
    /\ \A i \in DOMAIN data[1] : data[1][i].dt.offset = -8 /\ data[1][i].tt # NaN
    /\ <<"A", 0, 60>> \in FullyCovered /\ <<"A", 0, 60>> \in DOMAIN final
    /\ <<"B", 0, 60>> \in FullyCovered /\ <<"B", 0, 60>> \notin DOMAIN final

====
